---- MODULE Spec2Model ----
(***************************************************************************)
(* A model of ProjectChecker: the interactive loop of src/main.rs and the  *)
(* fetch / classify / combine pipeline of src/api.rs.                      *)
(*                                                                         *)
(* Rust strings that the code inspects by character (URLs, paths, file     *)
(* contents, patterns, signature keys) are sequences of one-character      *)
(* strings, so that split, ends_with, contains and trim are computed as    *)
(* the code computes them; a character is a one-character string, or       *)
(* "U+XXXX" for a character TLA+ cannot write.  Strings that the code only *)
(* compares as a whole (type names, project-type labels, descriptions) are *)
(* TLA+ strings.                                                           *)
(***************************************************************************)
EXTENDS Naturals, Sequences, FiniteSets

VARIABLES
    pc, line, result, diag, mappings, metaOut, treeOut, metaReqs, treeReqs,
    branch, tree, outcomes, files, fetchRes, file_stats, fileTypeOf,
    project_types_detected, combined, arg, ret

vars ==
    << pc, line, result, diag, mappings, metaOut, treeOut, metaReqs, treeReqs,
       branch, tree, outcomes, files, fetchRes, file_stats, fileTypeOf,
       project_types_detected, combined, arg, ret >>

----------------------------------------------------------------------------
(* Bounds of the model.                                                     *)

\* longest tree listing a tree response carries
MaxTree == 2
\* most segments after the scheme of a URL given to extract_owner_repo
MaxSegs == 4
\* most labels in a sequence given to detect_combined_project_type
MaxLabels == 3
\* most type names per category of a rule table given to detect_file_type
MaxTypes == 2
\* most words in a file content given to detect_framework
MaxWords == 2

----------------------------------------------------------------------------
(* str operations of the Rust standard library, on character sequences.     *)

\* Option<T>: None is the empty sequence, Some(x) the sequence of x alone
None == << >>

Some(x) == << x >>

\* a variable of the model that holds nothing yet: a local not assigned, a
\* response not received, a call not returned
Unset == "<unset>"

\* str::contains(&str)
Contains(s, k) ==
    \E i \in 0..(Len(s) - Len(k)) : SubSeq(s, i + 1, i + Len(k)) = k

\* str::ends_with(&str)
EndsWith(s, k) ==
    /\ Len(k) <= Len(s)
    /\ SubSeq(s, Len(s) - Len(k) + 1, Len(s)) = k

\* str::trim_start_matches(char): every leading occurrence is removed
RECURSIVE TrimStartMatches(_, _)
TrimStartMatches(s, c) ==
    IF s # << >> /\ Head(s) = c THEN TrimStartMatches(Tail(s), c) ELSE s

\* the characters str::trim removes: char::is_whitespace, the Unicode
\* White_Space property
Whitespace ==
    { "\t", "\n", "U+000B", "\f", "\r", " ", "U+0085", "U+00A0", "U+1680",
      "U+2000", "U+2001", "U+2002", "U+2003", "U+2004", "U+2005", "U+2006",
      "U+2007", "U+2008", "U+2009", "U+200A", "U+2028", "U+2029", "U+202F",
      "U+205F", "U+3000" }

RECURSIVE TrimStart(_)
TrimStart(s) ==
    IF s # << >> /\ Head(s) \in Whitespace THEN TrimStart(Tail(s)) ELSE s

RECURSIVE TrimEnd(_)
TrimEnd(s) ==
    IF s # << >> /\ s[Len(s)] \in Whitespace
    THEN TrimEnd(SubSeq(s, 1, Len(s) - 1))
    ELSE s

\* str::trim
Trim(s) == TrimEnd(TrimStart(s))

\* str::split(char).collect(): n separators give n + 1 parts, empty ones kept
RECURSIVE Split(_, _)
Split(s, c) ==
    IF \A i \in 1..Len(s) : s[i] # c
    THEN << s >>
    ELSE LET i == CHOOSE j \in 1..Len(s) :
                      s[j] = c /\ \A k \in 1..(j - 1) : s[k] # c
         IN  << SubSeq(s, 1, i - 1) >> \o Split(SubSeq(s, i + 1, Len(s)), c)

\* the parts of a split joined again with the separator: how inputs are built
RECURSIVE Join(_, _)
Join(parts, c) ==
    IF Len(parts) = 0 THEN << >>
    ELSE IF Len(parts) = 1 THEN parts[1]
    ELSE parts[1] \o << c >> \o Join(Tail(parts), c)

\* all sequences over S of length 0..n
SeqsUpTo(S, n) == UNION { [1..k -> S] : k \in 0..n }

\* the iteration orders a std HashMap with key set S can have: every
\* enumeration of S without repetition (the order depends on the per-map
\* random hasher state)
IterOrders(S) ==
    { s \in [1..Cardinality(S) -> S] : \A i, j \in DOMAIN s : i # j => s[i] # s[j] }

Range(s) == { s[i] : i \in DOMAIN s }

----------------------------------------------------------------------------
(* Repository locator: extract_owner_repo.                                  *)

\* Result::Err of extract_owner_repo
InvalidUrl == [ok |-> FALSE, owner |-> << >>, repo |-> << >>]

\* the segment count below which the URL is rejected (url_parts.len() < 5)
MinUrlParts == 5

extract_owner_repo(github_url) ==
    LET url_parts == Split(github_url, "/")
    IN  IF Len(url_parts) < MinUrlParts
        THEN InvalidUrl
        ELSE [ok |-> TRUE, owner |-> url_parts[4], repo |-> url_parts[5]]

----------------------------------------------------------------------------
(* Rule table: FileTypes / FileMappings and load_file_mappings.             *)

\* the categories in the order detect_file_type scans them (all_types)
all_types ==
    << "programming_languages", "web_files", "config_files", "documentation",
       "images", "video", "audio", "archives", "fonts", "other" >>

\* A rule-table document gives, per category (in the order of all_types),
\* its type names with their patterns in the order they are written: a
\* sequence of [name |-> type name, patterns |-> sequence of patterns],
\* names distinct.  Each category is deserialized into a
\* HashMap<String, Vec<String>>, whose iteration order is any order of its
\* keys; the patterns of one type keep their order (a Vec).

\* the orders in which one category's HashMap can iterate
CategoryOrders(entries) ==
    { [ i \in 1..Len(entries) |-> entries[o[i]] ] : o \in IterOrders(1..Len(entries)) }

\* the loaded forms of the first n categories of a document
RECURSIVE LoadedPrefix(_, _)
LoadedPrefix(doc, n) ==
    IF n = 0 THEN { << >> }
    ELSE { Append(m, o) : m \in LoadedPrefix(doc, n - 1), o \in CategoryOrders(doc[n]) }

\* a loaded table: the document with each category in the order its HashMap
\* iterates
LoadedTables(doc) == LoadedPrefix(doc, Len(all_types))

\* ./extensions.json as a run finds it: not there, there and not readable as
\* FileMappings, or holding a document
Missing == [found |-> FALSE, parsed |-> FALSE, doc |-> << >>]

Malformed == [found |-> TRUE, parsed |-> FALSE, doc |-> << >>]

Parsed(doc) == [found |-> TRUE, parsed |-> TRUE, doc |-> doc]

\* the outcomes of load_file_mappings for ./extensions.json as it is found:
\* None for Err, Some(table) for Ok
load_file_mappings(file) ==
    IF ~file.found \/ ~file.parsed THEN { None }
    ELSE { Some(m) : m \in LoadedTables(file.doc) }

----------------------------------------------------------------------------
(* Classifier: detect_file_type, detect_framework,                          *)
(* detect_project_type_and_framework, analyze_files.                        *)

\* `for pattern in patterns`: some pattern, its leading '*'s stripped, is a
\* suffix of the path
TypeMatches(path, entry) ==
    \E i \in 1..Len(entry.patterns) :
        EndsWith(path, TrimStartMatches(entry.patterns[i], "*"))

\* `for (file_type, patterns) in types_map`: the first type, in the map's
\* iteration order, with a matching pattern, or None
CategoryMatch(path, types_map) ==
    LET hits == { i \in 1..Len(types_map) : TypeMatches(path, types_map[i]) }
    IN  IF hits = {} THEN None
        ELSE Some(types_map[CHOOSE i \in hits : \A j \in hits : i <= j].name)

detect_file_type(path, m) ==
    LET hits == { c \in 1..Len(all_types) :
                    CategoryMatch(path, m[c]) # None }
    IN  IF hits = {} THEN "Unknown"
        ELSE CategoryMatch(path, m[CHOOSE c \in hits : \A d \in hits : c <= d])[1]

\* HashMap::insert, one call after the other: a later insert of a key
\* replaces the earlier value
HashMapOf(inserts) ==
    [ k \in { inserts[i][1] : i \in 1..Len(inserts) } |->
        inserts[CHOOSE i \in 1..Len(inserts) :
                    /\ inserts[i][1] = k
                    /\ \A j \in (i + 1)..Len(inserts) : inserts[j][1] # k][2] ]

\* `for (key, value) in &map { if test(key) { return value } }` on a HashMap
\* built by the call itself: the map iterates in an order fixed by its own
\* random hasher state, so the loop returns the value of any key that passes
\* the test.  The values it can return:
FirstHit(map, hits) == { map[k] : k \in hits }

frameworks ==
    HashMapOf(<< << <<"n","e","x","t",".","c","o","n","f","i","g",".","j","s">>, "Next.js" >>,
                 << <<"n","e","x","t",".","c","o","n","f","i","g",".","m","j","s">>, "Next.js" >>,
                 << <<"v","u","e",".","c","o","n","f","i","g">>, "Vue.js" >>,
                 << <<"a","n","g","u","l","a","r",".","j","s","o","n">>, "Angular" >> >>)

package_json_frameworks ==
    HashMapOf(<< << <<"r","e","a","c","t">>, "React" >>,
                 << <<"v","u","e">>, "Vue.js" >>,
                 << <<"a","n","g","u","l","a","r">>, "Angular" >> >>)

\* the framework signals detect_framework can return for (path, content)
detect_framework(path, content) ==
    LET byPath == { k \in DOMAIN frameworks : Contains(path, k) }
        byContent == { k \in DOMAIN package_json_frameworks : Contains(content, k) }
    IN  IF byPath # {} THEN FirstHit(frameworks, byPath)
        ELSE IF Contains(path, <<"p","a","c","k","a","g","e",".","j","s","o","n">>) /\ byContent # {}
             THEN FirstHit(package_json_frameworks, byContent)
             ELSE { "None" }

project_types ==
    HashMapOf(<< << <<"p","o","m",".","x","m","l">>, "Java Backend" >>,
                 << <<"c","o","n","f","i","g",".","r","u">>, "Ruby Backend (Rails)" >>,
                 << <<"m","a","i","n",".","g","o">>, "Go Backend" >>,
                 << <<"i","n","d","e","x",".","p","h","p">>, "PHP Backend" >>,
                 << <<"b","u","i","l","d",".","g","r","a","d","l","e">>, "Kotlin Backend" >>,
                 << <<"b","u","i","l","d",".","s","b","t">>, "Scala Backend" >>,
                 << <<"A","n","d","r","o","i","d","M","a","n","i","f","e","s","t",".","x","m","l">>, "Mobile App" >>,
                 << <<"I","n","f","o",".","p","l","i","s","t">>, "Mobile App" >>,
                 << <<"M","a","i","n","A","c","t","i","v","i","t","y",".","j","a","v","a">>, "Mobile App" >>,
                 << <<"A","p","p","D","e","l","e","g","a","t","e",".","s","w","i","f","t">>, "Mobile App" >>,
                 << <<"e","l","e","c","t","r","o","n">>, "Desktop App" >>,
                 << <<".","d","e","s","k","t","o","p">>, "Desktop App" >>,
                 << <<"M","a","i","n","W","i","n","d","o","w",".","x","a","m","l">>, "Desktop App" >>,
                 << <<"C","a","r","g","o",".","t","o","m","l">>, "Rust CLI Tool" >>,
                 << <<"s","e","t","u","p",".","p","y">>, "Python CLI Tool" >>,
                 << <<"M","a","k","e","f","i","l","e">>, "CLI Tool" >>,
                 << <<"P","r","o","g","r","a","m",".","c","s">>, "C# CLI Tool" >>,
                 << <<"p","o","m",".","x","m","l">>, "Java CLI Tool" >>,
                 << <<"b","u","i","l","d",".","g","r","a","d","l","e">>, "Gradle (Java/Kotlin) CLI Tool" >>,
                 << <<"G","o",".","m","o","d">>, "Go CLI Tool" >>,
                 << <<"R","a","k","e","f","i","l","e">>, "Ruby CLI Tool" >> >>)

\* format!("Website using {}", framework)
WebsiteUsing(framework) ==
    CASE framework = "Next.js" -> "Website using Next.js"
      [] framework = "Vue.js" -> "Website using Vue.js"
      [] framework = "Angular" -> "Website using Angular"
      [] framework = "React" -> "Website using React"

\* the (project_type, project_type_with_framework) pairs the function can
\* return for (path, content), each an Option
detect_project_type_and_framework(path, content) ==
    LET byKey == { k \in DOMAIN project_types :
                     Contains(path, k) \/ Contains(content, k) }
    IN  IF EndsWith(path, <<".","h","t","m","l">>) \/ EndsWith(path, <<".","c","s","s">>)
        THEN { << Some("Website"),
                  Some(IF framework # "None" THEN WebsiteUsing(framework)
                       ELSE "Static website") >> :
               framework \in detect_framework(path, content) }
        ELSE IF byKey # {}
             THEN { << Some(t), None >> : t \in FirstHit(project_types, byKey) }
             ELSE { << None, None >> }

\* `if let Some(x) = .. { if !v.contains(&x) { v.push(x) } }`
PushIfAbsent(v, x) ==
    IF x = None THEN v
    ELSE IF x[1] \in Range(v) THEN v ELSE Append(v, x[1])

\* file_stats.entry(file_type).or_insert_with(FileStats::new).files += 1
CountFile(stats, file_type) ==
    [ t \in DOMAIN stats \cup { file_type } |->
        IF t = file_type
        THEN (IF t \in DOMAIN stats THEN stats[t] ELSE 0) + 1
        ELSE stats[t] ]

\* FileStats of no file: HashMap::new()
NoStats == [ t \in {} |-> 0 ]

\* analyze_files: `for (path, content) in files` visits the fetched files in
\* the iteration order `order` of the files map; `signal` gives, per path,
\* the pair detect_project_type_and_framework returned for it.  The result
\* is [stats, types, typeOf]; typeOf records the file type found per path.
RECURSIVE analyze_files(_, _, _, _)
analyze_files(fs, m, order, signal) ==
    IF order = << >>
    THEN [stats |-> NoStats, types |-> << >>, typeOf |-> [ p \in {} |-> "" ]]
    ELSE LET n == Len(order)
             path == order[n]
             before == analyze_files(fs, m, SubSeq(order, 1, n - 1), signal)
             file_type == detect_file_type(path, m)
         IN  [stats |-> CountFile(before.stats, file_type),
              types |-> PushIfAbsent(PushIfAbsent(before.types, signal[path][1]),
                                     signal[path][2]),
              typeOf |-> [ p \in DOMAIN before.typeOf \cup { path } |->
                            IF p = path THEN file_type ELSE before.typeOf[p] ]]

\* the choices of `signal` for the fetched files
Signals(fs) ==
    { s \in [DOMAIN fs -> UNION { detect_project_type_and_framework(p, fs[p]) : p \in DOMAIN fs }] :
        \A p \in DOMAIN fs : s[p] \in detect_project_type_and_framework(p, fs[p]) }

----------------------------------------------------------------------------
(* Combiner: detect_combined_project_type.                                  *)

project_combinations ==
    << [types |-> << "Website", "Rust Backend" >>, description |-> "Website with Rust Backend"],
       [types |-> << "Website", "Python Backend" >>, description |-> "Website with Python Backend"],
       [types |-> << "Website", "C# Backend" >>, description |-> "Website with .NET Backend"],
       [types |-> << "Website", "Node.js Backend" >>, description |-> "Website with Node.js Backend"],
       [types |-> << "Website", "Java Backend" >>, description |-> "Website with Node.js Backend"],
       [types |-> << "Website", "Ruby Backend (Rails)" >>, description |-> "Website with Rust Backend"],
       [types |-> << "Website", "Go Backend" >>, description |-> "Website with Python Backend"],
       [types |-> << "Website", "PHP Backend" >>, description |-> "Website with .NET Backend"],
       [types |-> << "Website", "Kotlin Backend" >>, description |-> "Website with Node.js Backend"],
       [types |-> << "Website", "Scala Backend" >>, description |-> "Website with Node.js Backend"],
       [types |-> << "Mobile App" >>, description |-> "Mobile App"],
       [types |-> << "Desktop App" >>, description |-> "Desktop App"],
       [types |-> << "CLI Tool" >>, description |-> "CLI Tool"] >>

\* types.iter().all(|t| project_types.contains(t))
AllPresent(types, labels) ==
    \A i \in 1..Len(types) : types[i] \in Range(labels)

\* a faulty variant of FindFirst: the last element that passes
FindLast(combinations, labels) ==
    LET hits == { i \in 1..Len(combinations) : AllPresent(combinations[i].types, labels) }
    IN  IF hits = {} THEN 0 ELSE CHOOSE i \in hits : \A j \in hits : j <= i

\* Iterator::find: the first element, in list order, that passes
FindFirst(combinations, labels) ==
    LET hits == { i \in 1..Len(combinations) : AllPresent(combinations[i].types, labels) }
    IN  IF hits = {} THEN 0 ELSE CHOOSE i \in hits : \A j \in hits : i <= j

detect_combined_project_type(labels) ==
    LET i == FindFirst(project_combinations, labels)
    IN  IF i = 0 THEN "Unknown Project Type"
        ELSE project_combinations[i].description

\* the descriptions of the Website + Backend entries of the precedence list
WebsiteBackendDescriptions ==
    { project_combinations[i].description : i \in
        { j \in 1..Len(project_combinations) :
            /\ Len(project_combinations[j].types) = 2
            /\ project_combinations[j].types[1] = "Website" } }

----------------------------------------------------------------------------
(* The interactive loop (main) and fetch_and_display_tree.                  *)

\* what read_line can deliver: a line with its newline, or nothing at end of
\* input
MainLines ==
    { <<"e","x","i","t","\n">>, <<"\f","e","x","i","t","U+3000","\r","\n">>, <<"h","t","t","p","s",":","/","/","g","i","t","h","u","b",".","c","o","m","/","o","w","n","e","r","/","r","e","p","o","\n">>,
      <<"o","w","n","e","r","/","r","e","p","o","\n">>, << >> }

Exit == <<"e","x","i","t">>

\* the document of ./extensions.json in a run of the loop, when it has one
MainDoc ==
    << << [name |-> "Go", patterns |-> << <<"*",".","g","o">> >>],
          [name |-> "PHP", patterns |-> << <<"*",".","p","h","p">> >>] >>,
       << [name |-> "HTML", patterns |-> << <<"*",".","h","t","m","l">>, <<"*",".","h","t","m">> >>] >>,
       << [name |-> "XML", patterns |-> << <<"*",".","x","m","l">> >>] >>,
       << >>, << >>, << >>, << >>, << >>, << >>, << >> >>

MainDocs == { Missing, Malformed, Parsed(MainDoc) }

\* the paths of the blob entries a tree listing can hold
BlobPaths ==
    { <<"a","p","p","/","i","n","d","e","x",".","h","t","m","l">>, <<"p","o","m",".","x","m","l">>, <<"c","o","n","f","i","g",".","r","u">>, <<"m","a","i","n",".","g","o">>,
      <<"i","n","d","e","x",".","p","h","p">>, <<"b","u","i","l","d",".","g","r","a","d","l","e">>, <<"b","u","i","l","d",".","s","b","t">> }

\* TreeNode: path, type and whether url is Some
TreeNodes ==
    { [path |-> p, type |-> "blob", url |-> TRUE] : p \in BlobPaths }
    \cup { [path |-> <<"d","o","c","s","/","o","l","d",".","h","t","m","l">>, type |-> "blob", url |-> FALSE],
           [path |-> <<"a","p","p">>, type |-> "tree", url |-> TRUE] }

\* GitTree.tree of a tree response
Trees == SeqsUpTo(TreeNodes, MaxTree)

\* the text a content response can carry
Contents == { << >>, <<"e","l","e","c","t","r","o","n">> }

\* What a request can come to:
\*   "sendErr"        send().await fails
\*   "status"         a non-success status, its body read
\*   "statusBodyErr"  a non-success status, reading its body fails
\*   "ok"             a success status, its body read and parsed
\*   "bodyErr"        a success status, reading or parsing its body fails
ResponseOutcomes == { "sendErr", "status", "statusBodyErr", "ok", "bodyErr" }

\* the outcomes on which `?` returns Err from the enclosing function
IsErr(out) == out \in { "sendErr", "statusBodyErr", "bodyErr" }

\* `if !res.status().is_success() { eprintln!(..); return Ok(()) }` and the
\* else branch of `if tree_res.status().is_success()`: the pipeline goes on
\* to its next step only after a success response
GoesOn(out) == out = "ok"

\* main, `if let Err(err) = fetch_and_display_tree(url).await { eprintln!(..) }`
\* inside `loop`: where the process is after the call returned `res`
MainAfter(res) == "prompt"

\* a faulty variant of FilesAfter: the body of a non-success response is
\* kept as the file's content
FilesAfterKeepingFailed(fs, path, out, content) ==
    IF out \in { "ok", "status" }
    THEN [ p \in DOMAIN fs \cup { path } |-> IF p = path THEN content ELSE fs[p] ]
    ELSE fs

\* fetch_files: files.insert(node.path.clone(), content) on a success
\* response, nothing otherwise
FilesAfter(fs, path, out, content) ==
    IF out = "ok"
    THEN [ p \in DOMAIN fs \cup { path } |-> IF p = path THEN content ELSE fs[p] ]
    ELSE fs

\* no file fetched: HashMap::new()
NoFiles == [ p \in {} |-> << >> ]

Init ==
    /\ pc = "prompt" /\ line = << >> /\ result = Unset /\ diag = << >>
    /\ mappings = Unset /\ metaOut = Unset /\ treeOut = Unset
    /\ metaReqs = 0 /\ treeReqs = 0 /\ branch = None /\ tree = << >>
    /\ outcomes = << >> /\ files = NoFiles /\ fetchRes = Unset
    /\ file_stats = NoStats /\ fileTypeOf = << >>
    /\ project_types_detected = << >> /\ combined = None
    /\ arg = Unset /\ ret = << >>

\* a new pass of the loop: nothing of the previous analysis is kept
NothingFetched ==
    /\ metaOut' = Unset /\ treeOut' = Unset /\ treeReqs' = 0
    /\ branch' = None /\ tree' = << >> /\ outcomes' = << >>
    /\ files' = NoFiles /\ fetchRes' = Unset

NothingAnalyzed ==
    /\ file_stats' = NoStats /\ fileTypeOf' = << >>
    /\ project_types_detected' = << >> /\ combined' = None

\* The console output of one step.  `before` is what stderr holds of this
\* analysis, `d` the diagnostics the step writes to it (eprintln!), in order;
\* `stdout` tells that the step then writes lines to stdout (println!).
\* print!, println! and eprintln! panic when the write fails (the reader of
\* the stream is gone, the device is full), and a panic ends the process:
\* the step either writes everything, and the process is at `next` with
\* fetch_and_display_tree's return value `res` (Unset while it runs), or a
\* write fails after some of the diagnostics.  main's "Error: .." is the last
\* diagnostic of a step that returns Err.
Writes(before, d, stdout, next, res) ==
    \/ /\ diag' = before \o d
       /\ pc' = next
       /\ result' = res
    \/ /\ d # << >> \/ stdout
       /\ \E k \in 0..(IF stdout THEN Len(d) ELSE Len(d) - 1) :
            diag' = before \o SubSeq(d, 1, k)
       /\ pc' = "panicked"
       /\ result' = IF res = "Err" THEN "Err" ELSE Unset

\* print!(..) of the prompt fails, or flush() does:
\* expect("Failed to flush stdout") panics
PromptWriteFails ==
    /\ pc = "prompt"
    /\ pc' = "panicked"
    /\ line' = << >> /\ result' = Unset /\ diag' = << >>
    /\ mappings' = Unset /\ metaReqs' = 0
    /\ NothingFetched /\ NothingAnalyzed
    /\ UNCHANGED << arg, ret >>

\* read_line fails: expect("Failed to read line") panics
ReadLineFails ==
    /\ pc = "prompt"
    /\ pc' = "panicked"
    /\ line' = << >> /\ result' = Unset /\ diag' = << >>
    /\ mappings' = Unset /\ metaReqs' = 0
    /\ NothingFetched /\ NothingAnalyzed
    /\ UNCHANGED << arg, ret >>

\* the line read is "exit": break
ReadExit ==
    /\ pc = "prompt"
    /\ \E l \in MainLines :
        /\ Trim(l) = Exit
        /\ line' = l
    /\ pc' = "done"
    /\ result' = Unset /\ diag' = << >>
    /\ mappings' = Unset /\ metaReqs' = 0
    /\ NothingFetched /\ NothingAnalyzed
    /\ UNCHANGED << arg, ret >>

\* another line, and extract_owner_repo(url)? fails
AnalyzeInvalidUrl ==
    /\ pc = "prompt"
    /\ \E l \in MainLines :
        /\ Trim(l) # Exit
        /\ ~extract_owner_repo(Trim(l)).ok
        /\ line' = l
    /\ Writes(<< >>, << "Error" >>, FALSE, MainAfter("Err"), "Err")
    /\ mappings' = Unset /\ metaReqs' = 0
    /\ NothingFetched /\ NothingAnalyzed
    /\ UNCHANGED << arg, ret >>

\* another line, a well-formed URL, and load_file_mappings fails; it has
\* printed that the file does not exist when that is why
AnalyzeNoMappings ==
    /\ pc = "prompt"
    /\ \E l \in MainLines :
        /\ Trim(l) # Exit
        /\ extract_owner_repo(Trim(l)).ok
        /\ line' = l
    /\ \E file \in MainDocs :
        /\ None \in load_file_mappings(file)
        /\ Writes(<< >>,
                  (IF ~file.found THEN << "File does not exist" >> ELSE << >>)
                      \o << "Error loading file mappings" >>,
                  FALSE, MainAfter("Ok"), "Ok")
    /\ mappings' = Unset /\ metaReqs' = 0
    /\ NothingFetched /\ NothingAnalyzed
    /\ UNCHANGED << arg, ret >>

\* another line, a well-formed URL, the rule table loads: the repository
\* metadata request is sent
AnalyzeSendsMetadataRequest ==
    /\ pc = "prompt"
    /\ \E l \in MainLines :
        /\ Trim(l) # Exit
        /\ extract_owner_repo(Trim(l)).ok
        /\ line' = l
    /\ \E file \in MainDocs :
        \E m \in load_file_mappings(file) : m # None /\ mappings' = m[1]
    /\ metaReqs' = 1
    /\ pc' = "meta"
    /\ result' = Unset /\ diag' = << >>
    /\ NothingFetched /\ NothingAnalyzed
    /\ UNCHANGED << arg, ret >>

\* repo_info["default_branch"].as_str().unwrap_or("main")
DefaultBranch(field) == IF field = None THEN "main" ELSE field[1]

\* the default_branch field of a metadata body: absent, or a branch name
BranchFields == { None, Some("develop"), Some("main") }

\* the diagnostics of a response: eprintln!("Failed to ..") for a non-success
\* status whose body was read, main's "Error: .." for an Err
ResponseDiag(out, failed) ==
    IF out = "status" THEN << failed >>
    ELSE IF IsErr(out) THEN << "Error" >>
    ELSE << >>

\* what fetch_and_display_tree returns when it stops on a response
ResponseResult(out) == IF IsErr(out) THEN "Err" ELSE "Ok"

\* the response to the metadata request; after a success response the tree
\* URL is printed and then the tree request is sent
MetadataResponse ==
    /\ pc = "meta"
    /\ \E out \in ResponseOutcomes, field \in BranchFields :
        /\ metaOut' = out
        /\ out # "ok" => field = None
        /\ IF GoesOn(out)
           THEN /\ branch' = Some(DefaultBranch(field))
                /\ Writes(diag, ResponseDiag(out, "Failed to fetch repository info"),
                          TRUE, "tree", Unset)
                /\ treeReqs' = IF pc' = "tree" THEN 1 ELSE 0
           ELSE /\ Writes(diag, ResponseDiag(out, "Failed to fetch repository info"),
                          FALSE, MainAfter(ResponseResult(out)),
                          ResponseResult(out))
                /\ UNCHANGED << branch, treeReqs >>
    /\ UNCHANGED << line, mappings, treeOut, metaReqs, tree, outcomes, files,
                    fetchRes, file_stats, fileTypeOf, project_types_detected,
                    combined, arg, ret >>

\* the response to the tree request (the branch named in its URL is of no
\* use after it); a parsed listing is printed (print_tree, a line for each
\* node) and fetch_files starts on it
TreeResponse ==
    /\ pc = "tree"
    /\ \E out \in ResponseOutcomes, t \in Trees :
        /\ treeOut' = out
        /\ out # "ok" => t = << >>
        /\ IF GoesOn(out)
           THEN /\ tree' = t
                /\ Writes(diag, ResponseDiag(out, "Failed to fetch the repo tree"),
                          t # << >>, "fetch", Unset)
           ELSE /\ Writes(diag, ResponseDiag(out, "Failed to fetch the repo tree"),
                          FALSE, MainAfter(ResponseResult(out)),
                          ResponseResult(out))
                /\ UNCHANGED tree
    /\ branch' = None
    /\ UNCHANGED << line, mappings, metaOut, metaReqs, treeReqs,
                    outcomes, files, fetchRes, file_stats, fileTypeOf,
                    project_types_detected, combined, arg, ret >>

\* fetch_files, the next node: not a blob, or a blob without url
FetchSkipsNode ==
    /\ pc = "fetch"
    /\ Len(outcomes) < Len(tree)
    /\ LET node == tree[Len(outcomes) + 1]
       IN  /\ node.type # "blob" \/ ~node.url
           /\ outcomes' = Append(outcomes,
                  [kind |-> IF node.type # "blob" THEN "notBlob" ELSE "noUrl",
                   content |-> << >>])
           /\ Writes(diag,
                     IF node.type = "blob" THEN << "Skipping file" >> ELSE << >>,
                     FALSE, "fetch", Unset)
    /\ UNCHANGED << line, mappings, metaOut, treeOut, metaReqs,
                    treeReqs, branch, tree, files, fetchRes, file_stats,
                    fileTypeOf, project_types_detected, combined, arg, ret >>

\* fetch_files, the next node: a blob with a url is requested
FetchRequestsBlob ==
    /\ pc = "fetch"
    /\ Len(outcomes) < Len(tree)
    /\ LET node == tree[Len(outcomes) + 1]
       IN  /\ node.type = "blob" /\ node.url
           /\ \E out \in ResponseOutcomes, content \in Contents :
                /\ out # "ok" => content = << >>
                /\ outcomes' = Append(outcomes, [kind |-> out, content |-> content])
                /\ files' = FilesAfter(files, node.path, out, content)
                /\ IF IsErr(out)
                   THEN /\ fetchRes' = "Err"
                        /\ Writes(diag, ResponseDiag(out, "Failed to fetch file"),
                                  FALSE, MainAfter("Err"), "Err")
                   ELSE /\ Writes(diag, ResponseDiag(out, "Failed to fetch file"),
                                  FALSE, "fetch", Unset)
                        /\ UNCHANGED fetchRes
    /\ UNCHANGED << line, mappings, metaOut, treeOut, metaReqs, treeReqs,
                    branch, tree, file_stats, fileTypeOf,
                    project_types_detected, combined, arg, ret >>

\* fetch_files returns Ok(files); analyze_files and display_file_stats run,
\* printing a line for each file, the statistics and, last, the detected
\* project type, and fetch_and_display_tree returns Ok(()).  When one of
\* these writes fails nothing is reported.
AnalyzeAndDisplay ==
    /\ pc = "fetch"
    /\ Len(outcomes) = Len(tree)
    /\ fetchRes' = "Ok"
    /\ Writes(diag, << >>, TRUE, MainAfter("Ok"), "Ok")
    /\ IF pc' = "panicked"
       THEN UNCHANGED << file_stats, fileTypeOf, project_types_detected,
                         combined >>
       ELSE \E order \in IterOrders(DOMAIN files), signal \in Signals(files) :
              LET r == analyze_files(files, mappings, order, signal)
              IN  /\ file_stats' = r.stats
                  /\ fileTypeOf' = r.typeOf
                  /\ project_types_detected' = r.types
                  /\ combined' = Some(detect_combined_project_type(r.types))
    /\ UNCHANGED << line, mappings, metaOut, treeOut, metaReqs, treeReqs,
                    branch, tree, outcomes, files, arg, ret >>

Next ==
    \/ PromptWriteFails
    \/ ReadLineFails
    \/ ReadExit
    \/ AnalyzeInvalidUrl
    \/ AnalyzeNoMappings
    \/ AnalyzeSendsMetadataRequest
    \/ MetadataResponse
    \/ TreeResponse
    \/ FetchSkipsNode
    \/ FetchRequestsBlob
    \/ AnalyzeAndDisplay

Spec == Init /\ [][Next]_vars

----------------------------------------------------------------------------
(* Properties of the loop and the pipeline.                                 *)

\* the analysis of the current URL has produced its report
Reported == combined # None

\* the entries of the listing fetch_files has dealt with, by what came of them
NodesWith(kinds) == { i \in 1..Len(outcomes) : outcomes[i].kind \in kinds }

BlobNodes == { i \in 1..Len(tree) : tree[i].type = "blob" }

\* the paths of the blob entries whose content fetch succeeded
FetchedPaths == { tree[i].path : i \in NodesWith({ "ok" }) }

\* the content of the last successful fetch of a path
FetchedContent(p) ==
    LET hits == { i \in NodesWith({ "ok" }) : tree[i].path = p }
    IN  outcomes[CHOOSE i \in hits : \A j \in hits : j <= i].content

RECURSIVE SumOver(_, _)
SumOver(f, S) ==
    IF S = {} THEN 0
    ELSE LET x == CHOOSE y \in S : TRUE IN f[x] + SumOver(f, S \ { x })

\* C1: once a tree listing was obtained, fetch_files returns a mapping
\* whatever the per-file outcomes are: it visits every entry of the listing,
\* and the mapping holds exactly the blob entries whose fetch succeeded.
C1_BatchNeverAborts ==
    (treeOut = "ok" /\ pc = "prompt") =>
        /\ fetchRes = "Ok"
        /\ Len(outcomes) = Len(tree)
        /\ DOMAIN files = FetchedPaths

\* C3: the process ends only when the line read is "exit"; and an analysis
\* that ends without a report, whatever made it fail, has printed a
\* diagnostic and is back at the prompt.
C3_OnlyExitEndsLoop ==
    [][ /\ pc' \in { "done", "panicked" } =>
              (pc = "prompt" /\ pc' = "done" /\ Trim(line') = Exit)
        /\ pc \in { "meta", "tree", "fetch" } =>
              pc' \in { "meta", "tree", "fetch", "prompt" }
        /\ (result' # Unset /\ ~Reported') =>
              (pc' = "prompt" /\ diag' # << >>) ]_vars

\* C4 as stated: after a report, the per-type counts sum to N - K, N the
\* blob entries of the listing and K those whose fetch got a non-success
\* status.
C4_CountsSumToBlobsMinusFailed ==
    Reported =>
        SumOver(file_stats, DOMAIN file_stats)
            = Cardinality(BlobNodes) - Cardinality(NodesWith({ "status" }))

\* C4 amended: after a report, the per-type counts sum to the number of
\* distinct paths among the blob entries that carry a url and whose fetch
\* succeeded, which is N - K - M when the N blob entries have distinct paths
\* and M of them carry no url; every count is the number of fetched paths of
\* that type; the type of a fetched file is what detect_file_type gives for
\* its path alone; and every detected label is a signal of a fetched file.
C4_CountsAreTheFetchedFiles ==
    Reported =>
        /\ SumOver(file_stats, DOMAIN file_stats) = Cardinality(FetchedPaths)
        /\ (\A i, j \in BlobNodes : i # j => tree[i].path # tree[j].path) =>
              SumOver(file_stats, DOMAIN file_stats)
                  = Cardinality(BlobNodes) - Cardinality(NodesWith({ "status" }))
                        - Cardinality(NodesWith({ "noUrl" }))
        /\ DOMAIN fileTypeOf = FetchedPaths
        /\ \A p \in FetchedPaths : fileTypeOf[p] = detect_file_type(p, mappings)
        /\ \A t \in DOMAIN file_stats :
              file_stats[t] = Cardinality({ p \in FetchedPaths : fileTypeOf[p] = t })
        /\ \A l \in Range(project_types_detected) :
              \E p \in FetchedPaths :
                  \E s \in detect_project_type_and_framework(p, FetchedContent(p)) :
                      Some(l) \in { s[1], s[2] }

\* C4 witness: a report over a listing of which one blob was fetched and
\* another failed with a non-success status
C4_Witness ==
    /\ Reported
    /\ NodesWith({ "status" }) # {}
    /\ NodesWith({ "ok" }) # {}
    /\ \E i \in NodesWith({ "status" }) : tree[i].path \notin FetchedPaths

\* C5: after a non-success response to the metadata request or to the tree
\* request, a diagnostic is printed, the request was sent once, no later
\* request is sent, nothing is fetched, classified or reported, and the loop
\* is at the prompt.
C5_NonSuccessAborts ==
    /\ metaOut \in { "status", "statusBodyErr" } =>
          /\ pc = "prompt" /\ diag # << >>
          /\ metaReqs = 1 /\ treeReqs = 0 /\ treeOut = Unset
          /\ outcomes = << >> /\ files = NoFiles /\ fetchRes = Unset
          /\ file_stats = NoStats /\ project_types_detected = << >>
          /\ ~Reported
    /\ treeOut \in { "status", "statusBodyErr" } =>
          /\ pc = "prompt" /\ diag # << >>
          /\ metaReqs = 1 /\ treeReqs = 1
          /\ outcomes = << >> /\ files = NoFiles /\ fetchRes = Unset
          /\ file_stats = NoStats /\ project_types_detected = << >>
          /\ ~Reported

\* C7: when the only fetched file is an .html or .css file with no framework
\* marker, the detected labels hold "Website" and the reported project type
\* is "Static website".
C7_StaticWebsiteReported ==
    ( /\ Reported
      /\ \E p \in DOMAIN files :
            /\ DOMAIN files = { p }
            /\ EndsWith(p, <<".","h","t","m","l">>) \/ EndsWith(p, <<".","c","s","s">>)
            /\ detect_framework(p, files[p]) = { "None" } )
    => ( /\ "Website" \in Range(project_types_detected)
         /\ combined = Some("Static website") )

\* the backend markers of the project-type table
BackendMarkers ==
    { <<"p","o","m",".","x","m","l">>, <<"c","o","n","f","i","g",".","r","u">>, <<"m","a","i","n",".","g","o">>, <<"i","n","d","e","x",".","p","h","p">>,
      <<"b","u","i","l","d",".","g","r","a","d","l","e">>, <<"b","u","i","l","d",".","s","b","t">> }

\* C10: when the fetched files are one .html file and one file whose path is
\* a backend marker, both empty, the reported project type is the
\* description of a Website + Backend combination.
C10_WebsiteWithBackendReported ==
    ( /\ Reported
      /\ \E h \in DOMAIN files, b \in BackendMarkers :
            /\ DOMAIN files = { h, b }
            /\ EndsWith(h, <<".","h","t","m","l">>)
            /\ files[h] = << >> /\ files[b] = << >> )
    => ( /\ combined \in { Some(d) : d \in WebsiteBackendDescriptions }
         /\ combined # Some("Unknown Project Type") )

----------------------------------------------------------------------------
(* extract_owner_repo on its own.  The URLs are an optional scheme, up to    *)
(* MaxSegs non-empty segments joined by '/', and an optional trailing '/'.  *)

UrlSegments == { <<"g","i","t","h","u","b",".","c","o","m">>, <<"o","w","n","e","r">>, <<"r","e","p","o">> }

Urls ==
    { scheme \o Join(parts, "/") \o trailing :
        scheme \in { << >>, <<"h","t","t","p","s",":","/","/">> },
        parts \in SeqsUpTo(UrlSegments, MaxSegs) \ { << >> },
        trailing \in { << >>, <<"/">> } }

\* the state outside a run of the interactive loop: one function is called
\* on an argument drawn from `args`; `ret` is the sequence of the values
\* returned so far
CallInit(args) ==
    /\ pc = "call" /\ line = << >> /\ result = Unset /\ diag = << >>
    /\ mappings = Unset /\ metaOut = Unset /\ treeOut = Unset
    /\ metaReqs = 0 /\ treeReqs = 0 /\ branch = None /\ tree = << >>
    /\ outcomes = << >> /\ files = << >> /\ fetchRes = Unset
    /\ file_stats = NoStats /\ fileTypeOf = << >>
    /\ project_types_detected = << >> /\ combined = None
    /\ arg \in args
    /\ ret = << >>

PipelineUnchanged ==
    UNCHANGED << line, result, diag, metaOut, treeOut, metaReqs,
                 treeReqs, branch, tree, outcomes, files, fetchRes, file_stats,
                 fileTypeOf, project_types_detected, combined >>

LocatorInit == CallInit({ [github_url |-> u] : u \in Urls })

CallExtractOwnerRepo ==
    /\ pc = "call"
    /\ ret' = << extract_owner_repo(arg.github_url) >>
    /\ pc' = "returned"
    /\ UNCHANGED << arg, mappings >>
    /\ PipelineUnchanged

LocatorNext == CallExtractOwnerRepo

SpecLocator == LocatorInit /\ [][LocatorNext]_vars

\* parseRepoId as the claim words it: one trailing '/' removed, split on '/',
\* the last two segments, failure when fewer than two segments remain
ParseRepoIdAsClaimed(url) ==
    LET trimmed == IF url # << >> /\ url[Len(url)] = "/"
                   THEN SubSeq(url, 1, Len(url) - 1) ELSE url
        parts == Split(trimmed, "/")
        n == Len(parts)
    IN  IF n < 2 THEN InvalidUrl
        ELSE [ok |-> TRUE, owner |-> parts[n - 1], repo |-> parts[n]]

\* C2: extract_owner_repo returns, for every URL, what the claimed parseRepoId
\* returns: the last two segments after one trailing '/' is removed, and a
\* failure only when fewer than two segments remain.
C2_LastTwoSegments ==
    pc = "returned" => ret[1] = ParseRepoIdAsClaimed(arg.github_url)

----------------------------------------------------------------------------
(* detect_combined_project_type on its own: every sequence of up to         *)
(* MaxLabels labels of LabelUniverse.                                       *)

LabelUniverse ==
    { "Website", "Static website", "Go Backend", "Ruby Backend (Rails)",
      "Rust Backend", "Mobile App", "CLI Tool", "Java CLI Tool" }

CombineInit ==
    CallInit({ [project_types |-> l] : l \in SeqsUpTo(LabelUniverse, MaxLabels) })

CallDetectCombinedProjectType ==
    /\ pc = "call"
    /\ ret' = << detect_combined_project_type(arg.project_types) >>
    /\ pc' = "returned"
    /\ UNCHANGED << arg, mappings >>
    /\ PipelineUnchanged

CombineNext == CallDetectCombinedProjectType

SpecCombine == CombineInit /\ [][CombineNext]_vars

\* the precedence entries all of whose required labels occur in `labels`
Satisfied(labels) ==
    { i \in 1..Len(project_combinations) :
        \A t \in Range(project_combinations[i].types) :
            \E k \in 1..Len(labels) : labels[k] = t }

\* C8: detect_combined_project_type returns the description of the first
\* entry of the precedence list all of whose required labels occur in the
\* sequence, "Unknown Project Type" exactly when no entry is satisfied, and
\* for a sequence with both "Website" and "Go Backend" the description of a
\* Website + Backend entry.
C8_FirstSatisfiedCombination ==
    pc = "returned" =>
        LET labels == arg.project_types
            sat == Satisfied(labels)
        IN  /\ (ret[1] = "Unknown Project Type") <=> (sat = {})
            /\ sat # {} =>
                  \E i \in sat :
                      /\ \A j \in sat : i <= j
                      /\ ret[1] = project_combinations[i].description
            /\ ("Website" \in Range(labels) /\ "Go Backend" \in Range(labels)) =>
                  /\ ret[1] \in WebsiteBackendDescriptions
                  /\ ret[1] # "Unknown Project Type"

\* C8 witness: a sequence with "Website", "Go Backend" and a label of a later
\* entry has been combined
C8_Witness ==
    /\ pc = "returned"
    /\ { "Website", "Go Backend", "Mobile App" } \subseteq Range(arg.project_types)
    /\ ret = << "Website with Python Backend" >>

----------------------------------------------------------------------------
(* detect_file_type on its own: two runs of the program on one rule-table   *)
(* document and one path.  Each run loads the document into fresh HashMaps. *)

ClassifyEntries ==
    { [name |-> "TypeScript", patterns |-> << <<"*",".","t","s">>, <<"*",".","t","s","x">> >>],
      [name |-> "TypeScript Declaration", patterns |-> << <<"*",".","d",".","t","s">> >>],
      [name |-> "HTML", patterns |-> << <<"*",".","h","t","m","l">> >>],
      [name |-> "Documentation", patterns |-> << <<"R","E","A","D","M","E">>, <<"*","*",".","m","d">> >>] }

\* the type names of one category are distinct (keys of a JSON object)
CategoryDocs ==
    { es \in SeqsUpTo(ClassifyEntries, MaxTypes) :
        \A i, j \in 1..Len(es) : i # j => es[i].name # es[j].name }

\* documents whose first two categories are filled, the others empty
ClassifyDocs ==
    { << a, b, << >>, << >>, << >>, << >>, << >>, << >>, << >>, << >> >> :
        a \in CategoryDocs, b \in CategoryDocs }

ClassifyPaths ==
    { <<"s","r","c","/","m","a","i","n",".","t","s">>, <<"t","y","p","e","s","/","i","n","d","e","x",".","d",".","t","s">>, <<"a","p","p","/","i","n","d","e","x",".","h","t","m","l">>, <<"R","E","A","D","M","E">> }

ClassifyInit ==
    /\ CallInit({ [path |-> p, doc |-> d] : p \in ClassifyPaths, d \in ClassifyDocs })

\* a run starts: load_file_mappings
RunLoadFileMappings ==
    /\ pc = "call"
    /\ \E m \in load_file_mappings(Parsed(arg.doc)) :
        m # None /\ mappings' = m[1]
    /\ pc' = "loaded"
    /\ UNCHANGED << arg, ret >>
    /\ PipelineUnchanged

\* the run types the path: detect_file_type prints what it found and returns
\* it, or the println! fails and the run panics; a second run follows the
\* first
RunDetectFileType ==
    /\ pc = "loaded"
    /\ LET file_type == detect_file_type(arg.path, mappings)
       IN  \/ /\ ret' = Append(ret, file_type)
              /\ pc' = IF ret = << >> THEN "call" ELSE "returned"
           \/ /\ ret' = ret
              /\ pc' = "panicked"
    /\ mappings' = Unset
    /\ UNCHANGED arg
    /\ PipelineUnchanged

ClassifyNext == RunLoadFileMappings \/ RunDetectFileType

SpecClassify == ClassifyInit /\ [][ClassifyNext]_vars

\* C6: two runs on the same (path, table) return the same type, and it is
\* the type of the first matching pattern in category order and then in the
\* table's own type/pattern order ("Unknown" if none matches).
C6_DeterministicFirstMatch ==
    pc = "returned" =>
        /\ ret[1] = ret[2]
        /\ ret[1] = detect_file_type(arg.path, arg.doc)

----------------------------------------------------------------------------
(* detect_framework on its own: contents are up to MaxWords words.          *)

FrameworkPaths ==
    { <<"p","a","c","k","a","g","e",".","j","s","o","n">>, <<"w","e","b","/","p","a","c","k","a","g","e",".","j","s","o","n">>, <<"n","e","x","t",".","c","o","n","f","i","g",".","j","s">>,
      <<"v","u","e",".","c","o","n","f","i","g",".","j","s">>, <<"s","r","c","/","m","a","i","n",".","r","s">> }

ContentWords == { <<"r","e","a","c","t">>, <<"v","u","e">>, <<"a","n","g","u","l","a","r">>, <<"l","o","d","a","s","h">> }

FrameworkContents == { Join(ws, " ") : ws \in SeqsUpTo(ContentWords, MaxWords) }

FrameworkInit ==
    CallInit({ [path |-> p, content |-> c] : p \in FrameworkPaths, c \in FrameworkContents })

CallDetectFramework ==
    /\ pc = "call"
    /\ \E framework \in detect_framework(arg.path, arg.content) :
        ret' = << framework >>
    /\ pc' = "returned"
    /\ UNCHANGED << arg, mappings >>
    /\ PipelineUnchanged

FrameworkNext == CallDetectFramework

SpecFramework == FrameworkInit /\ [][FrameworkNext]_vars

\* C9: for a path that contains "package.json" and no path signature, and a
\* content that contains "react", the framework signal is "React".
C9_ReactFromPackageJson ==
    ( /\ pc = "returned"
      /\ Contains(arg.path, <<"p","a","c","k","a","g","e",".","j","s","o","n">>)
      /\ \A k \in DOMAIN frameworks : ~Contains(arg.path, k)
      /\ Contains(arg.content, <<"r","e","a","c","t">>) )
    => ret = << "React" >>

====
